---- MODULE Spec2Model ----
(***************************************************************************)
(* CineScope enrichment pipeline: the three resumable stage drivers        *)
(* (scripts/enrich/01_enrich_tmdb.py, 02_enrich_omdb.py, 03_enrich_ddd.py) *)
(* with their output files and the OMDb quota-state file.                  *)
(*                                                                         *)
(* A DataFrame is a record [columns, rows]: columns is the ordered list of *)
(* column names, rows a sequence of functions from the column names to     *)
(* values.  A missing value (NaN / None) is Null.  A file is a sequence of *)
(* length 0 (the file does not exist) or 1 (its content).                  *)
(***************************************************************************)
EXTENDS Integers, Sequences, FiniteSets, TLC

\* ---------------------------------------------------------------- bounds
NumIds == 12        \* rows of the watchlist (TMDb stage source)
MaxLimit == 2       \* largest --limit value tried
MaxErrors == 1      \* per-item exceptions injected in one behaviour
MaxAbsent == 1      \* titles a provider has no entry for
NumSrc == 3         \* rows of the TMDb output read by the OMDb stage
MaxRuns == 2        \* OMDb processes started in one behaviour
MaxDay == 2         \* last calendar date of a behaviour (the first is 1)
MaxVotes == 1       \* largest yesSum / noSum of a DDD topic
MaxCkIds == 2       \* IDs the checkpoint calls overlap on
MaxFetch == 3       \* rows fetched into one buffer of checkpoint calls
MaxDepth == 3       \* nested _make_request calls the interpreter allows
MaxItems == 2       \* _process_item calls followed in one behaviour

\* ------------------------------------------------------ program constants
\* an interval as long as the watchlist: no checkpoint inside the loop
CHECKPOINT_EVERY_Late == NumIds
CHECKPOINT_EVERY == 10   \* 01_enrich_tmdb.py:72
DAILY_LIMIT == 980       \* 02_enrich_omdb.py:48
DDD_CHECKPOINT_EVERY == 20   \* 03_enrich_ddd.py:82

Null == "null"
NoFile == <<>>

\* --limit: <<>> is None (flag not given), <<k>> is the integer k
Limits == {<<>>} \cup {<<k>> : k \in 0..MaxLimit}

\* ------------------------------------------------------- DataFrame helpers
EmptyDF == [columns |-> <<>>, rows |-> <<>>]

Range(s) == {s[i] : i \in 1..Len(s)}

HasColumn(df, c) == c \in Range(df.columns)

\* DataFrame.empty: no rows or no columns
IsEmptyDF(df) == Len(df.rows) = 0 \/ Len(df.columns) = 0

\* insertion order of the keys of the dicts the stages build
AllColumns == <<"position", "const", "tmdb_id", "tmdb_title", "omdb_title", "ddd_id", "ddd_topic">>

DictColumns(d) == SelectSeq(AllColumns, LAMBDA c : c \in DOMAIN d)

\* a dict reindexed to the columns cols, missing keys filled with NaN
Reindex(d, cols) == [c \in Range(cols) |-> IF c \in DOMAIN d THEN d[c] ELSE Null]

\* columns of pd.DataFrame(list of dicts): union of the keys
UnionColumns(ds) ==
    SelectSeq(AllColumns, LAMBDA c : \E i \in 1..Len(ds) : c \in DOMAIN ds[i])

\* pd.DataFrame(list_of_dicts)
FromDicts(ds) ==
    LET cols == UnionColumns(ds)
    IN  [columns |-> cols, rows |-> [i \in 1..Len(ds) |-> Reindex(ds[i], cols)]]

\* pd.concat([a, b], ignore_index=True)
Concat(a, b) ==
    LET cols == a.columns \o SelectSeq(b.columns, LAMBDA c : ~HasColumn(a, c))
    IN  [columns |-> cols,
         rows |-> [i \in 1..Len(a.rows) |-> Reindex(a.rows[i], cols)]
                  \o [i \in 1..Len(b.rows) |-> Reindex(b.rows[i], cols)]]

\* df.drop_duplicates(subset=['const'], keep='first')
DropDuplicatesKeepFirst(df) ==
    LET keep == {i \in 1..Len(df.rows) :
                    \A j \in 1..(i-1) : df.rows[j]["const"] # df.rows[i]["const"]}
        F[i \in 0..Len(df.rows)] ==
            IF i = 0 THEN <<>>
            ELSE IF i \in keep THEN Append(F[i-1], df.rows[i]) ELSE F[i-1]
    IN  [columns |-> df.columns, rows |-> F[Len(df.rows)]]

\* df.drop_duplicates(subset=['const'], keep='last')
DropDuplicatesKeepLast(df) ==
    LET keep == {i \in 1..Len(df.rows) :
                    \A j \in (i+1)..Len(df.rows) : df.rows[j]["const"] # df.rows[i]["const"]}
        F[i \in 0..Len(df.rows)] ==
            IF i = 0 THEN <<>>
            ELSE IF i \in keep THEN Append(F[i-1], df.rows[i]) ELSE F[i-1]
    IN  [columns |-> df.columns, rows |-> F[Len(df.rows)]]

\* df.head(k), k >= 0
HeadRows(rows, k) == SubSeq(rows, 1, IF k < Len(rows) THEN k ELSE Len(rows))

\* "if limit: items = items.head(limit)": None and 0 are both falsy
ApplyLimit(rows, limit) ==
    IF limit # <<>> /\ limit[1] # 0 THEN HeadRows(rows, limit[1]) ELSE rows

\* a work-list that never counts as empty
ItemsEmpty_Never(items) == FALSE

\* items_to_process.empty
ItemsEmpty(items) == Len(items) = 0

Consts(rows) == {rows[i]["const"] : i \in 1..Len(rows)}

ConstSeq(rows) == [i \in 1..Len(rows) |-> rows[i]["const"]]

\* the rows of a file, <<>> when the file does not exist
FileRows(f) == IF f = NoFile THEN <<>> ELSE f[1].rows

\* exactly one row per const of ids, no other rows
OneRowPerId(rows, ids) ==
    /\ Consts(rows) = ids
    /\ \A i, j \in 1..Len(rows) : rows[i]["const"] = rows[j]["const"] => i = j

\* ------------------------------------------------------------------ setup
\* what a process finds when it starts: its API credential (settings.*_API_KEY)
\* and its upstream input file
Setups == [api_key : BOOLEAN, input_file : BOOLEAN]

SetupOk == [api_key |-> TRUE, input_file |-> TRUE]

\* a setup check that lets every process through
SetupError_Never(env) == FALSE

\* the client's __init__ raises ValueError without a key; DataLoader.__init__
\* raises FileNotFoundError and _load_source_data calls sys.exit(1) without
\* the input file
SetupError(env) == ~env.api_key \/ ~env.input_file

\* the exit code of main() for the way a process ended
ExitCode(exit) == IF exit \in {"crash", "setup error"} THEN 1 ELSE 0

\* =================================================================== TMDb
VARIABLES
    tmdb_file,      \* 01_tmdb_enriched_media.csv
    t_pc,           \* "idle" (no process) or "loop" (inside the item loop of run)
    t_force,        \* --force of the current / last run
    t_dest,         \* dest_df of the run
    t_items,        \* items_to_process (rows)
    t_idx,          \* next row of items_to_process
    t_enriched,     \* enriched_data
    t_calls,        \* IDs passed to the adapter in this run, in order
    t_raised,       \* IDs whose processing raised in this run
    t_ckpts,        \* checkpoints written inside the loop in this run
    t_wrote,        \* the run wrote the output file
    t_exit,         \* how the last process ended
    t_prev,         \* summary of the process before the current / last one
    t_errors,       \* exceptions injected so far
    tmdb_missing,   \* the watchlist IDs TMDb has no entry for
    t_env           \* TMDB_API_KEY is set, the watchlist file exists

tvars == <<tmdb_file, t_pc, t_force, t_dest, t_items, t_idx, t_enriched,
           t_calls, t_raised, t_ckpts, t_wrote, t_exit, t_prev, t_errors, tmdb_missing, t_env>>

\* DataLoader.load_watchlist: the cleaned watchlist
WatchlistDF ==
    [columns |-> <<"position", "const">>,
     rows |-> [i \in 1..NumIds |-> [position |-> i, const |-> i]]]

WatchlistIds == Consts(WatchlistDF.rows)

\* an output file left by an earlier process: the first k watchlist rows
TMDbRowFound(r) == [position |-> r["position"], const |-> r["const"], tmdb_id |-> "id", tmdb_title |-> "title"]

PriorTMDbFile(k) ==
    <<[columns |-> <<"position", "const", "tmdb_id", "tmdb_title">>,
       rows |-> [i \in 1..k |-> TMDbRowFound(WatchlistDF.rows[i])]]>>

\* sizes of the output file found at the start of a behaviour
PriorRows == {1, NumIds}

\* the titles a provider has no entry for: none, or the rows 2 .. 1 + m of n rows
MissingSets(n) == {{i \in 2..n : i <= 1 + m} : m \in 0..MaxAbsent}

\* what the adapter of a provider answers for an ID
AdapterAnswer(missing, id) == IF id \in missing THEN "absent" ELSE "found"

\* TMDbEnricher._load_or_initialize_dest_df
TMDbLoadDest(file, force) ==
    IF file # NoFile /\ ~force THEN file[1] ELSE EmptyDF

\* a progress tracker that goes by the marker column: rows without tmdb_id are pending
TMDbItemsToProcess_ByMarker(source_df, dest_df) ==
    IF IsEmptyDF(dest_df) THEN source_df.rows
    ELSE SelectSeq(source_df.rows, LAMBDA r :
            \A i \in 1..Len(dest_df.rows) :
                dest_df.rows[i]["const"] = r["const"]
                    => (HasColumn(dest_df, "tmdb_id") => dest_df.rows[i]["tmdb_id"] = Null))

\* TMDbEnricher._get_items_to_process
TMDbItemsToProcess(source_df, dest_df) ==
    IF IsEmptyDF(dest_df) THEN source_df.rows
    ELSE SelectSeq(source_df.rows, LAMBDA r : r["const"] \notin Consts(dest_df.rows))

\* TMDbEnricher._process_item, by what the adapter answered
TMDbProcessItem(row, answer) ==
    IF answer \in {"absent", "no id"} THEN row
    ELSE IF answer = "no details"
    THEN [c \in DOMAIN row \cup {"tmdb_id"} |-> IF c = "tmdb_id" THEN "id" ELSE row[c]]
    ELSE [c \in DOMAIN row \cup {"tmdb_id", "tmdb_title"} |->
            IF c = "tmdb_id" THEN "id"
            ELSE IF c = "tmdb_title" THEN "title"
            ELSE row[c]]

\* a checkpoint that writes the new rows only
TMDbSaveCheckpoint_NewOnly(dest_df, new_data, file) ==
    IF Len(new_data) = 0 THEN [raised |-> FALSE, wrote |-> FALSE, file |-> file]
    ELSE IF Len(dest_df.columns) = 0 THEN [raised |-> TRUE, wrote |-> FALSE, file |-> file]
    ELSE [raised |-> FALSE, wrote |-> TRUE,
          file |-> <<DropDuplicatesKeepLast(FromDicts(new_data))>>]

\* TMDbEnricher._save_checkpoint: [raised, file]
\* dest_df.columns[0] raises IndexError on a DataFrame without columns,
\* set_index raises KeyError when the new rows lack that column
TMDbSaveCheckpoint(dest_df, new_data, file) ==
    IF Len(new_data) = 0 THEN [raised |-> FALSE, wrote |-> FALSE, file |-> file]
    ELSE IF Len(dest_df.columns) = 0 THEN [raised |-> TRUE, wrote |-> FALSE, file |-> file]
    ELSE IF ~HasColumn(FromDicts(new_data), dest_df.columns[1])
         THEN [raised |-> TRUE, wrote |-> FALSE, file |-> file]
    ELSE [raised |-> FALSE, wrote |-> TRUE,
          file |-> <<DropDuplicatesKeepLast(Concat(dest_df, FromDicts(new_data)))>>]

\* how a process ended, for the next one: the exit, and whether a killed run had
\* written a checkpoint
TMDbSummary ==
    IF t_exit = "interrupt" /\ t_ckpts > 0 THEN "interrupt after checkpoint" ELSE t_exit

\* the limit cut the work-list of the run short
TMDbTruncated == Len(t_items) < Len(TMDbItemsToProcess(WatchlistDF, t_dest))

InitTMDb ==
    /\ tmdb_file \in {NoFile} \cup {PriorTMDbFile(k) : k \in PriorRows}
    /\ t_pc = "idle"
    /\ t_force = FALSE
    /\ t_dest = EmptyDF
    /\ t_items = <<>>
    /\ t_idx = 1
    /\ t_enriched = <<>>
    /\ t_calls = <<>>
    /\ t_raised = {}
    /\ t_ckpts = 0
    /\ t_wrote = FALSE
    /\ t_exit = "none"
    /\ t_prev = "none"
    /\ t_errors = 0
    /\ tmdb_missing \in MissingSets(NumIds)
    /\ t_env \in Setups

\* main() up to the item loop: lines 203-205, 209-211, run() lines 52-66
TMDbStart(force, limit) ==
    /\ t_pc = "idle"
    /\ IF SetupError(t_env)
       THEN /\ t_dest' = EmptyDF
            /\ t_items' = <<>>
            /\ t_pc' = "idle"
            /\ t_exit' = "setup error"
       ELSE LET dest == TMDbLoadDest(tmdb_file, force)
                items == ApplyLimit(TMDbItemsToProcess(WatchlistDF, dest), limit)
            IN  /\ t_dest' = dest
                /\ t_items' = items
                /\ IF ItemsEmpty(items)
                   THEN t_pc' = "idle" /\ t_exit' = "ok"
                   ELSE t_pc' = "loop" /\ t_exit' = "running"
    /\ t_force' = force
    /\ t_idx' = 1
    /\ t_enriched' = <<>>
    /\ t_calls' = <<>>
    /\ t_raised' = {}
    /\ t_ckpts' = 0
    /\ t_wrote' = FALSE
    /\ t_prev' = TMDbSummary
    /\ UNCHANGED <<tmdb_file, t_errors, tmdb_missing, t_env>>

\* one iteration of the item loop: run() lines 68-78
TMDbItem(answer) ==
    /\ t_pc = "loop"
    /\ t_idx <= Len(t_items)
    /\ answer = "error" => t_errors < MaxErrors
    /\ answer # "error" => answer = AdapterAnswer(tmdb_missing, t_items[t_idx]["const"])
    /\ LET row == t_items[t_idx]
       IN  /\ t_calls' = Append(t_calls, row["const"])
           /\ IF answer = "error"
              THEN /\ t_raised' = t_raised \cup {row["const"]}
                   /\ UNCHANGED <<t_enriched, tmdb_file, t_ckpts, t_wrote>>
              ELSE LET enriched == Append(t_enriched, TMDbProcessItem(row, answer))
                       save == TMDbSaveCheckpoint(t_dest, enriched, tmdb_file)
                   IN  /\ t_enriched' = enriched
                       /\ IF Len(enriched) % CHECKPOINT_EVERY = 0
                          THEN /\ tmdb_file' = save.file
                               /\ t_wrote' = (t_wrote \/ save.wrote)
                               /\ t_ckpts' = IF save.raised THEN t_ckpts ELSE t_ckpts + 1
                               /\ t_raised' = IF save.raised THEN t_raised \cup {row["const"]}
                                              ELSE t_raised
                          ELSE UNCHANGED <<tmdb_file, t_wrote, t_ckpts, t_raised>>
    /\ t_idx' = t_idx + 1
    /\ t_errors' = IF answer = "error" THEN t_errors + 1 ELSE t_errors
    /\ UNCHANGED <<t_pc, t_force, t_dest, t_items, t_exit, t_prev, tmdb_missing, t_env>>

\* the final save and the return of run(): lines 80-87, main() lines 209-211
TMDbFinalSave ==
    /\ t_pc = "loop"
    /\ t_idx > Len(t_items)
    /\ LET save == TMDbSaveCheckpoint(t_dest, t_enriched, tmdb_file)
       IN  /\ tmdb_file' = save.file
           /\ t_wrote' = (t_wrote \/ save.wrote)
           /\ t_exit' = IF save.raised THEN "crash" ELSE "ok"
    /\ t_pc' = "idle"
    /\ UNCHANGED <<t_force, t_dest, t_items, t_idx, t_enriched, t_calls,
                   t_raised, t_ckpts, t_prev, t_errors, tmdb_missing, t_env>>

\* KeyboardInterrupt (or a kill) inside the loop: main() lines 206-208.
\* The memory of the process is gone; the files stay as they are.
TMDbInterrupt ==
    /\ t_pc = "loop"
    /\ t_pc' = "idle"
    /\ t_exit' = "interrupt"
    /\ t_dest' = EmptyDF
    /\ t_items' = <<>>
    /\ t_idx' = 1
    /\ t_enriched' = <<>>
    /\ t_calls' = <<>>
    /\ t_raised' = {}
    /\ UNCHANGED <<tmdb_file, t_force, t_ckpts, t_wrote, t_prev, t_errors, tmdb_missing, t_env>>

\* =================================================================== OMDb
VARIABLES
    omdb_file,      \* 02_omdb_enriched_media.csv
    status_file,    \* omdb_enrichment_status.json
    today,          \* the calendar date, datetime.now()
    o_pc,           \* "idle" or "loop"
    o_force,        \* --force of the current / last run
    o_status,       \* self.status
    o_start,        \* calls_today when the item loop was entered
    o_dest,         \* dest_df
    o_items,        \* items_to_process
    o_idx,
    o_enriched,     \* enriched_data
    o_calls,        \* IDs passed to the adapter in this run
    o_raised,       \* IDs whose processing raised in this run
    o_reported,     \* the run logged "Reached OMDb daily API limit."
    o_exit,         \* how the last process ended
    o_runs,         \* processes started so far
    o_errors,       \* exceptions injected so far
    omdb_missing,   \* the source IDs OMDb has no entry for
    o_env,          \* OMDB_API_KEY is set, the TMDb output exists
    o_issued,       \* adapter calls issued on the current date
    o_counted       \* increments of calls_today made on the current date

ovars == <<omdb_file, status_file, today, o_pc, o_force, o_status, o_start,
           o_dest, o_items, o_idx, o_enriched, o_calls, o_raised, o_reported, o_exit,
           o_runs, o_errors, omdb_missing, o_env, o_issued, o_counted>>

\* the TMDb output the OMDb stage reads (self.input_file)
OMDbSourceDF ==
    [columns |-> <<"position", "const", "tmdb_id", "tmdb_title">>,
     rows |-> [i \in 1..NumSrc |-> TMDbRowFound([position |-> i, const |-> i])]]

SourceIds == Consts(OMDbSourceDF.rows)

FreshStatus(date) == [calls_today |-> 0, last_run_date |-> date, enriched_ids |-> <<>>]

\* a loader that starts every process at zero
OMDbLoadStatus_FromZero(file, date) == FreshStatus(date)

\* a loader that keeps the stored counter on a new day
OMDbLoadStatus_NoReset(file, date) ==
    IF file # NoFile THEN [file[1] EXCEPT !.last_run_date = date] ELSE FreshStatus(date)

\* OMDbEnricher._load_status
OMDbLoadStatus(file, date) ==
    IF file # NoFile
    THEN IF file[1].last_run_date # date
         THEN [file[1] EXCEPT !.calls_today = 0, !.last_run_date = date]
         ELSE file[1]
    ELSE FreshStatus(date)

\* a load that resumes from the output file also under --force
OMDbLoadDest_KeepFile(file, force) ==
    IF file # NoFile THEN file[1] ELSE OMDbSourceDF

\* OMDbEnricher._load_or_initialize_dest_df
OMDbLoadDest(file, force) ==
    IF file # NoFile /\ ~force THEN file[1] ELSE OMDbSourceDF

\* OMDbEnricher._get_items_to_process
OMDbItemsToProcess(source_df, dest_df) ==
    IF ~HasColumn(dest_df, "omdb_title") THEN source_df.rows
    ELSE LET processed_ids ==
                 {dest_df.rows[i]["const"] :
                    i \in {k \in 1..Len(dest_df.rows) : dest_df.rows[k]["omdb_title"] # Null}}
         IN  SelectSeq(source_df.rows, LAMBDA r : r["const"] \notin processed_ids)

\* OMDbEnricher._process_item, by what the adapter answered
OMDbProcessItem(row, answer) ==
    IF answer = "absent" THEN row
    ELSE [c \in DOMAIN row \cup {"omdb_title"} |->
            IF c = "omdb_title" THEN "title" ELSE row[c]]

\* a save that writes nothing
OMDbSaveResults_Discard(dest_df, enriched, file) == file

\* "Save results" of run(): lines 109-114, the file written
OMDbSaveResults(dest_df, enriched, file) ==
    IF Len(enriched) = 0 THEN file
    ELSE <<Concat(dest_df, FromDicts(enriched))>>

\* calls_today values of the quota file found at the start of a behaviour
PriorCalls == {DAILY_LIMIT - 1, DAILY_LIMIT}

\* calls_today the quota file holds for the date d
PersistedCalls(file, d) ==
    IF file # NoFile /\ file[1].last_run_date = d THEN file[1].calls_today ELSE 0

InitOMDb ==
    /\ omdb_file = NoFile
    /\ today = 1
    /\ status_file \in {NoFile} \cup
          {<<[calls_today |-> c, last_run_date |-> d, enriched_ids |-> <<>>]>> :
              c \in PriorCalls, d \in {0, 1}}
    /\ o_pc = "idle"
    /\ o_force = FALSE
    /\ o_status = FreshStatus(1)
    /\ o_start = 0
    /\ o_dest = EmptyDF
    /\ o_items = <<>>
    /\ o_idx = 1
    /\ o_enriched = <<>>
    /\ o_calls = <<>>
    /\ o_raised = {}
    /\ o_reported = FALSE
    /\ o_exit = "none"
    /\ o_runs = 0
    /\ o_errors = 0
    /\ omdb_missing \in MissingSets(NumSrc)
    /\ o_env \in Setups
    /\ o_issued = PersistedCalls(status_file, 1)
    /\ o_counted = PersistedCalls(status_file, 1)

\* main() lines 203-205, 209-211, OMDbEnricher.__init__ and run() up to the
\* item loop: lines 51-55, 78-91, 126-131
OMDbStart(force, limit) ==
    /\ o_pc = "idle"
    /\ o_runs < MaxRuns
    /\ o_runs' = o_runs + 1
    /\ IF SetupError(o_env)
       THEN /\ o_status' = FreshStatus(today)
            /\ o_start' = 0
            /\ o_dest' = EmptyDF
            /\ o_items' = <<>>
            /\ o_pc' = "idle"
            /\ o_exit' = "setup error"
       ELSE LET status == OMDbLoadStatus(status_file, today)
                dest == OMDbLoadDest(omdb_file, force)
                items == ApplyLimit(OMDbItemsToProcess(OMDbSourceDF, dest), limit)
            IN  /\ o_status' = status
                /\ o_start' = status.calls_today
                /\ o_dest' = dest
                /\ o_items' = items
                /\ IF ItemsEmpty(items)
                   THEN o_pc' = "idle" /\ o_exit' = "ok"
                   ELSE o_pc' = "loop" /\ o_exit' = "running"
    /\ o_force' = force
    /\ o_idx' = 1
    /\ o_enriched' = <<>>
    /\ o_calls' = <<>>
    /\ o_raised' = {}
    /\ o_reported' = FALSE
    /\ UNCHANGED <<omdb_file, status_file, today, o_errors, omdb_missing, o_env, o_issued, o_counted>>

\* one iteration of the item loop below the limit: run() lines 93-106
OMDbItem(answer) ==
    /\ o_pc = "loop"
    /\ o_idx <= Len(o_items)
    /\ o_status.calls_today < DAILY_LIMIT
    /\ answer = "error" => o_errors < MaxErrors
    /\ answer # "error" => answer = AdapterAnswer(omdb_missing, o_items[o_idx]["const"])
    /\ LET row == o_items[o_idx]
       IN  /\ o_calls' = Append(o_calls, row["const"])
           /\ IF answer = "error"
              THEN /\ o_raised' = o_raised \cup {row["const"]}
                   /\ UNCHANGED <<o_enriched, o_status, o_counted>>
              ELSE /\ o_enriched' = Append(o_enriched, OMDbProcessItem(row, answer))
                   /\ o_status' = [o_status EXCEPT !.calls_today = @ + 1]
                   /\ o_counted' = o_counted + 1
                   /\ UNCHANGED o_raised
    /\ o_idx' = o_idx + 1
    /\ o_issued' = o_issued + 1
    /\ o_errors' = IF answer = "error" THEN o_errors + 1 ELSE o_errors
    /\ UNCHANGED <<o_force, omdb_file, status_file, today, o_pc, o_start, o_dest,
                   o_items, o_reported, o_exit, o_runs, omdb_missing, o_env>>

\* the end of the loop (work-list exhausted, or the break at the daily limit),
\* the save of the results and of the status: run() lines 94-97, 108-123
OMDbFinish ==
    /\ o_pc = "loop"
    /\ o_idx > Len(o_items) \/ o_status.calls_today >= DAILY_LIMIT
    /\ o_reported' = (o_idx <= Len(o_items))
    /\ omdb_file' = OMDbSaveResults(o_dest, o_enriched, omdb_file)
    /\ LET status == [o_status EXCEPT !.enriched_ids = @ \o ConstSeq(o_enriched)]
       IN  /\ o_status' = status
           /\ status_file' = <<status>>
    /\ o_pc' = "idle"
    /\ o_exit' = "ok"
    /\ UNCHANGED <<o_force, today, o_start, o_dest, o_items, o_idx, o_enriched,
                   o_calls, o_raised, o_runs, o_errors, omdb_missing, o_env, o_issued, o_counted>>

\* KeyboardInterrupt (or a kill) inside the loop: main() lines 206-208.
\* Nothing is saved; the memory of the process is gone.
OMDbInterrupt ==
    /\ o_pc = "loop"
    /\ o_pc' = "idle"
    /\ o_exit' = "interrupt"
    /\ o_status' = FreshStatus(today)
    /\ o_dest' = EmptyDF
    /\ o_items' = <<>>
    /\ o_idx' = 1
    /\ o_enriched' = <<>>
    /\ o_calls' = <<>>
    /\ o_raised' = {}
    /\ UNCHANGED <<o_force, omdb_file, status_file, today, o_start, o_reported,
                   o_runs, o_errors, omdb_missing, o_env, o_issued, o_counted>>

\* midnight passes while no OMDb process runs
NewDay ==
    /\ o_pc = "idle"
    /\ today < MaxDay
    /\ today' = today + 1
    /\ o_issued' = 0
    /\ o_counted' = 0
    /\ UNCHANGED <<o_force, omdb_file, status_file, o_pc, o_status, o_start,
                   o_dest, o_items, o_idx, o_enriched, o_calls, o_raised, o_reported,
                   o_exit, o_runs, o_errors, omdb_missing, o_env>>

\* ==================================================================== DDD
VARIABLES
    ddd_file,       \* 03_ddd_enriched_media.csv
    d_pc,           \* "idle" or "loop"
    d_force,
    d_limit,
    d_fresh,        \* the run started from a copy of the source
    d_dest,         \* dest_df
    d_items,        \* items_to_process, as index labels of dest_df
    d_idx,
    d_indices,      \* processed_indices
    d_rows,         \* enriched_rows_data
    d_calls,        \* IDs passed to the adapter in this run
    d_raised,       \* IDs whose processing raised in this run
    d_exit,         \* how the last process ended
    d_errors,       \* exceptions injected so far
    ddd_missing,    \* the source IDs DDD has no entry for
    d_env           \* DDD_API_KEY is set, the OMDb output exists

dvars == <<ddd_file, d_pc, d_force, d_limit, d_fresh, d_dest, d_items, d_idx, d_indices,
           d_rows, d_calls, d_raised, d_exit, d_errors, ddd_missing, d_env>>

\* the OMDb output the DDD stage reads (self.input_file)
DDDSourceDF ==
    [columns |-> <<"position", "const", "tmdb_id", "tmdb_title", "omdb_title">>,
     rows |-> [i \in 1..NumSrc |->
                 OMDbProcessItem(TMDbRowFound([position |-> i, const |-> i]), "found")]]

\* an output file with DDD columns found at the start of a behaviour: the
\* source rows but the last, the first never looked up, the others not found
PriorDDDFile ==
    <<[columns |-> DDDSourceDF.columns \o <<"ddd_id", "ddd_topic">>,
       rows |-> [i \in 1..(NumSrc - 1) |->
                   [c \in Range(DDDSourceDF.columns) \cup {"ddd_id", "ddd_topic"} |->
                      IF c = "ddd_id" THEN (IF i = 1 THEN Null ELSE "NOT_FOUND")
                      ELSE IF c = "ddd_topic" THEN Null
                      ELSE DDDSourceDF.rows[i][c]]]]>>

\* DDDEnricher.run lines 54-58
DDDLoadDest(file, force) ==
    IF file # NoFile /\ ~force THEN file[1] ELSE DDDSourceDF

\* a tracker that takes only a real DDD id for done
DDDItemsToProcess_RetryNotFound(df) ==
    LET all == [i \in 1..Len(df.rows) |-> i]
    IN  IF ~HasColumn(df, "ddd_id") THEN all
        ELSE SelectSeq(all, LAMBDA i : df.rows[i]["ddd_id"] \in {Null, "NOT_FOUND"})

\* DDDEnricher._get_items_to_process: the index labels of the rows returned
DDDItemsToProcess(df) ==
    LET all == [i \in 1..Len(df.rows) |-> i]
    IN  IF ~HasColumn(df, "ddd_id") THEN all
        ELSE SelectSeq(all, LAMBDA i : df.rows[i]["ddd_id"] = Null)

\* a label that calls every tie controversial, the tie of no votes too
VoteLabel_EveryTie(yes_votes, no_votes) ==
    IF yes_votes > no_votes THEN "Yes"
    ELSE IF no_votes > yes_votes THEN "No"
    ELSE "Controversial"

\* the vote label of one topic: _process_item lines 148-156
VoteLabel(yes_votes, no_votes) ==
    IF yes_votes > no_votes THEN "Yes"
    ELSE IF no_votes > yes_votes THEN "No"
    ELSE IF yes_votes > 0 /\ yes_votes = no_votes THEN "Controversial"
    ELSE "No Votes"

\* dict.get(key, default)
DictGet(d, key, default) == IF key \in DOMAIN d THEN d[key] ELSE default

\* the entries of topicItemStats the media record can hold: each of the
\* counts yesSum and noSum is there or is missing
Triggers == UNION {[keys -> 0..MaxVotes] : keys \in SUBSET {"yesSum", "noSum"}}

\* the votes _process_item reads off a trigger: lines 145-146
YesVotes(trigger) == DictGet(trigger, "yesSum", 0)
NoVotes(trigger) == DictGet(trigger, "noSum", 0)

\* what the DDD adapter can answer
DDDAnswers ==
    {[kind |-> k, yes |-> 0, no |-> 0] : k \in {"absent", "error"}}
    \cup {[kind |-> "found", yes |-> y, no |-> n] : y, n \in 0..MaxVotes}

\* DDDEnricher._process_item: only the new columns
DDDProcessItem(answer) ==
    IF answer.kind \in {"absent", "partial"} THEN [ddd_id |-> "NOT_FOUND"]
    ELSE [ddd_id |-> "id", ddd_topic |-> VoteLabel(answer.yes, answer.no)]

\* dest_df.update(pd.DataFrame(rows_data, index=indices)): in place, only the
\* columns dest_df already has, only the non-NA values of the other frame
DataFrameUpdate(dest_df, indices, rows_data) ==
    LET other == FromDicts(rows_data)
        Last(i) == CHOOSE k \in 1..Len(indices) :
                         /\ indices[k] = i
                         /\ \A m \in (k+1)..Len(indices) : indices[m] # i
    IN  [columns |-> dest_df.columns,
         rows |-> [i \in 1..Len(dest_df.rows) |->
                     [c \in Range(dest_df.columns) |->
                        IF /\ HasColumn(other, c)
                           /\ i \in Range(indices)
                           /\ other.rows[Last(i)][c] # Null
                        THEN other.rows[Last(i)][c]
                        ELSE dest_df.rows[i][c]]]]

InitDDD ==
    /\ ddd_file \in {NoFile, PriorDDDFile}
    /\ d_pc = "idle"
    /\ d_force = FALSE
    /\ d_limit = <<>>
    /\ d_fresh = FALSE
    /\ d_dest = EmptyDF
    /\ d_items = <<>>
    /\ d_idx = 1
    /\ d_indices = <<>>
    /\ d_rows = <<>>
    /\ d_calls = <<>>
    /\ d_raised = {}
    /\ d_exit = "none"
    /\ d_errors = 0
    /\ ddd_missing \in MissingSets(NumSrc)
    /\ d_env \in Setups

\* main() lines 166-168, 172-174, run() up to the item loop: lines 52-72, 106-111
DDDStart(force, limit) ==
    /\ d_pc = "idle"
    /\ IF SetupError(d_env)
       THEN /\ d_dest' = EmptyDF
            /\ d_items' = <<>>
            /\ d_pc' = "idle"
            /\ d_exit' = "setup error"
       ELSE LET dest == DDDLoadDest(ddd_file, force)
                items == ApplyLimit(DDDItemsToProcess(dest), limit)
            IN  /\ d_dest' = dest
                /\ d_items' = items
                /\ IF ItemsEmpty(items)
                   THEN d_pc' = "idle" /\ d_exit' = "ok"
                   ELSE d_pc' = "loop" /\ d_exit' = "running"
    /\ d_fresh' = (ddd_file = NoFile \/ force)
    /\ d_force' = force
    /\ d_limit' = limit
    /\ d_idx' = 1
    /\ d_indices' = <<>>
    /\ d_rows' = <<>>
    /\ d_calls' = <<>>
    /\ d_raised' = {}
    /\ UNCHANGED <<ddd_file, d_errors, ddd_missing, d_env>>

\* one iteration of the item loop: run() lines 75-92
DDDItem(answer) ==
    /\ d_pc = "loop"
    /\ d_idx <= Len(d_items)
    /\ answer.kind = "error" => d_errors < MaxErrors
    /\ answer.kind # "error"
          => answer.kind = AdapterAnswer(ddd_missing, d_dest.rows[d_items[d_idx]]["const"])
    /\ LET index == d_items[d_idx]
           row == d_dest.rows[index]
       IN  /\ d_calls' = Append(d_calls, row["const"])
           /\ IF answer.kind = "error"
              THEN /\ d_raised' = d_raised \cup {row["const"]}
                   /\ UNCHANGED <<d_indices, d_rows, d_dest, ddd_file>>
              ELSE LET indices == Append(d_indices, index)
                       rows_data == Append(d_rows, DDDProcessItem(answer))
                       updated == DataFrameUpdate(d_dest, indices, rows_data)
                   IN  /\ d_indices' = indices
                       /\ d_rows' = rows_data
                       /\ UNCHANGED d_raised
                       /\ IF Len(indices) % DDD_CHECKPOINT_EVERY = 0
                          THEN d_dest' = updated /\ ddd_file' = <<updated>>
                          ELSE UNCHANGED <<d_dest, ddd_file>>
    /\ d_idx' = d_idx + 1
    /\ d_errors' = IF answer.kind = "error" THEN d_errors + 1 ELSE d_errors
    /\ UNCHANGED <<d_pc, d_force, d_limit, d_fresh, d_items, d_exit, ddd_missing, d_env>>

\* the final save and the return of run(): lines 94-104
DDDFinish ==
    /\ d_pc = "loop"
    /\ d_idx > Len(d_items)
    /\ IF Len(d_rows) > 0
       THEN LET updated == DataFrameUpdate(d_dest, d_indices, d_rows)
            IN  d_dest' = updated /\ ddd_file' = <<updated>>
       ELSE UNCHANGED <<d_dest, ddd_file>>
    /\ d_pc' = "idle"
    /\ d_exit' = "ok"
    /\ UNCHANGED <<d_force, d_limit, d_fresh, d_items, d_idx, d_indices, d_rows, d_calls,
                   d_raised, d_errors, ddd_missing, d_env>>

\* KeyboardInterrupt (or a kill) inside the loop: main() lines 169-171
DDDInterrupt ==
    /\ d_pc = "loop"
    /\ d_pc' = "idle"
    /\ d_exit' = "interrupt"
    /\ d_dest' = EmptyDF
    /\ d_items' = <<>>
    /\ d_idx' = 1
    /\ d_indices' = <<>>
    /\ d_rows' = <<>>
    /\ d_calls' = <<>>
    /\ d_raised' = {}
    /\ UNCHANGED <<ddd_file, d_force, d_limit, d_fresh, d_errors, ddd_missing, d_env>>

\* ============================================ _save_checkpoint on its own
VARIABLES
    ck_dest,        \* dest_df handed to every call
    ck_new,         \* new_data, the growing buffer of fetched rows
    ck_file,        \* the output file
    ck_saved,       \* the buffer as of the last call that wrote the file
    ck_saves        \* calls that wrote the file

cvars == <<ck_dest, ck_new, ck_file, ck_saved, ck_saves>>

\* the row fetched for an ID as the n-th of the buffer; position carries n
FetchedRow(id, n, answer) ==
    TMDbProcessItem([position |-> NumIds + n, const |-> id], answer)

InitCkpt ==
    /\ ck_dest \in {EmptyDF} \cup {PriorTMDbFile(k)[1] : k \in 0..MaxCkIds}
    /\ ck_new = <<>>
    /\ ck_file = NoFile
    /\ ck_saved = <<>>
    /\ ck_saves = 0

\* run() lines 70-71: one more row in enriched_data, for any ID
CkptFetch(id, answer) ==
    /\ Len(ck_new) < MaxFetch
    /\ ck_new' = Append(ck_new, FetchedRow(id, Len(ck_new) + 1, answer))
    /\ UNCHANGED <<ck_dest, ck_file, ck_saved, ck_saves>>

\* run() lines 72-73 and 81: _save_checkpoint(dest_df, enriched_data)
CkptSave ==
    /\ ck_new # ck_saved
    /\ LET save == TMDbSaveCheckpoint(ck_dest, ck_new, ck_file)
       IN  /\ ck_file' = save.file
           /\ ck_saved' = IF save.wrote THEN ck_new ELSE ck_saved
           /\ ck_saves' = IF save.wrote THEN ck_saves + 1 ELSE ck_saves
    /\ UNCHANGED <<ck_dest, ck_new>>

\* ================================== _process_item and its adapter calls
VARIABLES
    i_stage,        \* the stage whose _process_item runs: "tmdb", "omdb", "ddd"
    i_row,          \* item_row
    i_pc,           \* "idle", "request" (an HTTP request is out), "returned", "raised"
    i_method,       \* the adapter method under way
    i_depth,        \* calls of TMDbClient._make_request on the stack
    i_log,          \* the HTTP responses received for the item so far
    i_answer,       \* what the adapter calls of the item came to
    i_result,       \* the dict _process_item returned
    i_trigger,      \* the topicItemStats entry of the media record it read
    i_items         \* _process_item calls made so far

ivars == <<i_stage, i_row, i_pc, i_method, i_depth, i_log, i_answer, i_result, i_trigger,
          i_items>>

\* what a provider can send back: 200 with the content asked for; 200 with
\* no match in it (find: no results, OMDb: Response False, DDD search: no
\* items); 200 with a match that has no id; 200 with a media object that
\* lacks 'item' or 'topicItemStats'; 404; 429; no response at all
\* (ConnectionError, Timeout)
HttpResponses == {"ok", "ok empty", "ok no id", "ok partial", "not found", "rate limited", "failed"}

\* raise_for_status() raises HTTPError
IsHttpError(r) == r \in {"not found", "rate limited"}

\* the rows _process_item is called with in a stage
ItemRows(stage) ==
    IF stage = "tmdb" THEN {WatchlistDF.rows[i] : i \in 1..2}
    ELSE IF stage = "omdb" THEN {OMDbSourceDF.rows[i] : i \in 1..2}
    ELSE {DDDSourceDF.rows[i] : i \in 1..2}

\* TMDbClient._make_request on the response r, depth calls deep: the JSON
\* body, None, a retry (the call calls itself), or RecursionError when the
\* interpreter allows no further call
TMDbMakeRequest(r, depth) ==
    IF r \in {"ok", "ok empty", "ok no id"} THEN "data"
    ELSE IF r = "rate limited" THEN (IF depth < MaxDepth THEN "retry" ELSE "RecursionError")
    ELSE "None"

\* OMDbClient.get_details_by_imdb_id on the response r
OMDbGetDetails(r) == IF r = "ok" THEN "record" ELSE "None"

\* DDDClient.get_ddd_info_by_imdb_id on the response r to its search
\* request: go on to the media request, or None
DDDSearch(r) == IF r = "ok" THEN "media" ELSE "None"

\* DDDClient.get_ddd_info_by_imdb_id on the response r to its media request
DDDMedia(r) == IF r \in {"ok", "ok partial"} THEN "record" ELSE "None"

InitItem ==
    /\ i_stage = "none"
    /\ i_row = <<>>
    /\ i_pc = "idle"
    /\ i_method = "none"
    /\ i_depth = 0
    /\ i_log = <<>>
    /\ i_answer = "none"
    /\ i_result = Null
    /\ i_trigger = <<>>
    /\ i_items = 0

\* _process_item is called: its first adapter call sends a request
ItemCall(stage, row) ==
    /\ i_pc # "request"
    /\ i_items < MaxItems
    /\ i_items' = i_items + 1
    /\ i_stage' = stage
    /\ i_row' = row
    /\ i_pc' = "request"
    /\ i_method' = IF stage = "tmdb" THEN "find_by_imdb_id"
                   ELSE IF stage = "omdb" THEN "get_details_by_imdb_id"
                   ELSE "get_ddd_info_by_imdb_id"
    /\ i_depth' = IF stage = "tmdb" THEN 1 ELSE 0
    /\ i_log' = <<>>
    /\ i_answer' = "none"
    /\ i_result' = Null
    /\ i_trigger' = <<>>

\* the item returns the row built from the answer
ItemReturns(answer, result) ==
    /\ i_pc' = "returned"
    /\ i_answer' = answer
    /\ i_result' = result
    /\ i_depth' = 0
    /\ UNCHANGED i_method

\* a response reaches TMDbClient._make_request: tmdb_client.py lines 57-69,
\* and what find_by_imdb_id (85-94) and _process_item (111-135) do with it
TMDbResponse(r, media_type) ==
    /\ i_pc = "request"
    /\ i_stage = "tmdb"
    /\ r # "ok partial"
    /\ i_method # "find_by_imdb_id" => r \notin {"ok empty", "ok no id"}
    /\ i_log' = Append(i_log, r)
    /\ LET out == TMDbMakeRequest(r, i_depth)
       IN  IF out = "retry"
           THEN /\ i_depth' = i_depth + 1
                /\ UNCHANGED <<i_pc, i_method, i_answer, i_result>>
           ELSE IF out = "RecursionError"
           THEN /\ i_pc' = "raised"
                /\ i_answer' = out
                /\ i_depth' = 0
                /\ UNCHANGED <<i_method, i_result>>
           ELSE IF i_method = "find_by_imdb_id"
           THEN IF out = "None" \/ r = "ok empty"
                THEN ItemReturns("absent", TMDbProcessItem(i_row, "absent"))
                ELSE IF r = "ok no id"
                THEN ItemReturns("no id", TMDbProcessItem(i_row, "no id"))
                ELSE /\ i_method' = IF media_type = "movie" THEN "get_movie_details"
                                    ELSE "get_tv_details"
                     /\ i_depth' = 1
                     /\ UNCHANGED <<i_pc, i_answer, i_result>>
           ELSE IF out = "None"
                THEN ItemReturns("no details", TMDbProcessItem(i_row, "no details"))
                ELSE ItemReturns("found", TMDbProcessItem(i_row, "found"))
    /\ UNCHANGED <<i_stage, i_row, i_items, i_trigger>>

\* a response reaches OMDbClient.get_details_by_imdb_id: omdb_client.py lines
\* 54-68, and _process_item (02_enrich_omdb.py lines 154-190)
OMDbResponse(r) ==
    /\ i_pc = "request"
    /\ i_stage = "omdb"
    /\ r \notin {"ok no id", "ok partial"}
    /\ i_log' = Append(i_log, r)
    /\ LET out == OMDbGetDetails(r)
       IN  IF out = "record" THEN ItemReturns("found", OMDbProcessItem(i_row, "found"))
           ELSE ItemReturns("absent", OMDbProcessItem(i_row, "absent"))
    /\ UNCHANGED <<i_stage, i_row, i_items, i_trigger>>

\* a response reaches DDDClient.get_ddd_info_by_imdb_id: ddd_client.py lines
\* 54-78, and _process_item (03_enrich_ddd.py lines 122-158)
DDDResponse(r, trigger) ==
    /\ i_pc = "request"
    /\ i_stage = "ddd"
    /\ Len(i_log) = 0 => r # "ok partial"
    /\ Len(i_log) = 1 => r \notin {"ok empty", "ok no id"}
    /\ i_log' = Append(i_log, r)
    /\ LET out == IF Len(i_log) = 0 THEN DDDSearch(r) ELSE DDDMedia(r)
           answer == IF out = "None" THEN [kind |-> "absent", yes |-> 0, no |-> 0]
                     ELSE IF r = "ok partial" THEN [kind |-> "partial", yes |-> 0, no |-> 0]
                     ELSE [kind |-> "found", yes |-> YesVotes(trigger),
                           no |-> NoVotes(trigger)]
       IN  IF out = "media"
           THEN UNCHANGED <<i_pc, i_method, i_depth, i_answer, i_result, i_trigger>>
           ELSE /\ ItemReturns(answer.kind, DDDProcessItem(answer))
                /\ i_trigger' = IF answer.kind = "found" THEN trigger ELSE <<>>
    /\ UNCHANGED <<i_stage, i_row, i_items>>

\* ================================================= a kill during a write
\* DataFrame.to_csv(path) opens the output file itself for writing and writes
\* the header and then the rows: a process killed in the call leaves the
\* header and the rows written so far.

\* the first k rows of a table, under its header
TornWrite(df, k) == [columns |-> df.columns, rows |-> SubSeq(df.rows, 1, k)]

\* the call of _save_checkpoint the TMDb process makes next, if the step it
\* is about to take makes one: the final save, or the checkpoint of the item
\* that fills the interval (run() lines 70-73, 81)
TMDbWriteDue ==
    IF t_idx > Len(t_items)
    THEN TMDbSaveCheckpoint(t_dest, t_enriched, tmdb_file)
    ELSE LET row == t_items[t_idx]
             enriched == Append(t_enriched,
                            TMDbProcessItem(row, AdapterAnswer(tmdb_missing, row["const"])))
         IN  IF Len(enriched) % CHECKPOINT_EVERY = 0
             THEN TMDbSaveCheckpoint(t_dest, enriched, tmdb_file)
             ELSE [raised |-> FALSE, wrote |-> FALSE, file |-> tmdb_file]

\* the process is killed inside temp_df.to_csv (line 195), k rows written
TMDbKillInWrite(k) ==
    /\ t_pc = "loop"
    /\ TMDbWriteDue.wrote
    /\ k < Len(TMDbWriteDue.file[1].rows)
    /\ tmdb_file' = <<TornWrite(TMDbWriteDue.file[1], k)>>
    /\ t_wrote' = TRUE
    /\ t_pc' = "idle"
    /\ t_exit' = "interrupt"
    /\ t_dest' = EmptyDF
    /\ t_items' = <<>>
    /\ t_idx' = 1
    /\ t_enriched' = <<>>
    /\ t_calls' = <<>>
    /\ t_raised' = {}
    /\ UNCHANGED <<t_force, t_ckpts, t_prev, t_errors, tmdb_missing, t_env>>

\* the process is killed inside final_df.to_csv (02_enrich_omdb.py line
\* 112), k rows written; _save_status (line 116) is not reached
OMDbKillInWrite(k) ==
    /\ o_pc = "loop"
    /\ o_idx > Len(o_items) \/ o_status.calls_today >= DAILY_LIMIT
    /\ Len(o_enriched) > 0
    /\ k < Len(OMDbSaveResults(o_dest, o_enriched, omdb_file)[1].rows)
    /\ omdb_file' = <<TornWrite(OMDbSaveResults(o_dest, o_enriched, omdb_file)[1], k)>>
    /\ o_pc' = "idle"
    /\ o_exit' = "interrupt"
    /\ o_status' = FreshStatus(today)
    /\ o_dest' = EmptyDF
    /\ o_items' = <<>>
    /\ o_idx' = 1
    /\ o_enriched' = <<>>
    /\ o_calls' = <<>>
    /\ o_raised' = {}
    /\ UNCHANGED <<o_force, status_file, today, o_start, o_reported,
                   o_runs, o_errors, omdb_missing, o_env, o_issued, o_counted>>

\* the table the final save of the DDD process writes (run() lines 95-98)
DDDWriteDue == DataFrameUpdate(d_dest, d_indices, d_rows)

\* the process is killed inside dest_df.to_csv (line 98), k rows written
DDDKillInWrite(k) ==
    /\ d_pc = "loop"
    /\ d_idx > Len(d_items)
    /\ Len(d_rows) > 0
    /\ k < Len(DDDWriteDue.rows)
    /\ ddd_file' = <<TornWrite(DDDWriteDue, k)>>
    /\ d_pc' = "idle"
    /\ d_exit' = "interrupt"
    /\ d_dest' = EmptyDF
    /\ d_items' = <<>>
    /\ d_idx' = 1
    /\ d_indices' = <<>>
    /\ d_rows' = <<>>
    /\ d_calls' = <<>>
    /\ d_raised' = {}
    /\ UNCHANGED <<d_force, d_limit, d_fresh, d_errors, ddd_missing, d_env>>

\* ========================================================= specifications
vars == <<tvars, ovars, dvars, cvars, ivars>>

\* a stage no process of which has run, over no output file
TMDbParked == tmdb_file = NoFile /\ tmdb_missing = {} /\ t_env = SetupOk /\ t_exit = "none"

OMDbParked ==
    /\ status_file = NoFile /\ omdb_missing = {} /\ o_env = SetupOk
    /\ o_exit = "none" /\ today = 1

DDDParked == ddd_file = NoFile /\ ddd_missing = {} /\ d_env = SetupOk /\ d_exit = "none"

CkptParked == ck_dest = EmptyDF /\ ck_new = <<>>

\* the TMDb stage alone
TMDbStageInit ==
    /\ InitTMDb
    /\ InitOMDb /\ OMDbParked
    /\ InitDDD /\ DDDParked
    /\ InitCkpt /\ CkptParked
    /\ InitItem

TMDbStageNext ==
    \/ \E force \in BOOLEAN, limit \in Limits : TMDbStart(force, limit) /\ UNCHANGED <<ovars, dvars, cvars, ivars>>
    \/ \E answer \in {"found", "absent", "error"} : TMDbItem(answer) /\ UNCHANGED <<ovars, dvars, cvars, ivars>>
    \/ TMDbFinalSave /\ UNCHANGED <<ovars, dvars, cvars, ivars>>
    \/ TMDbInterrupt /\ UNCHANGED <<ovars, dvars, cvars, ivars>>

SpecTMDb == TMDbStageInit /\ [][TMDbStageNext]_vars

\* the OMDb stage alone, over a complete TMDb output
OMDbStageInit ==
    /\ InitOMDb
    /\ InitTMDb /\ TMDbParked
    /\ InitDDD /\ DDDParked
    /\ InitCkpt /\ CkptParked
    /\ InitItem

OMDbStageNext ==
    \/ \E force \in BOOLEAN, limit \in Limits : OMDbStart(force, limit) /\ UNCHANGED <<tvars, dvars, cvars, ivars>>
    \/ \E answer \in {"found", "absent", "error"} : OMDbItem(answer) /\ UNCHANGED <<tvars, dvars, cvars, ivars>>
    \/ OMDbFinish /\ UNCHANGED <<tvars, dvars, cvars, ivars>>
    \/ OMDbInterrupt /\ UNCHANGED <<tvars, dvars, cvars, ivars>>
    \/ NewDay /\ UNCHANGED <<tvars, dvars, cvars, ivars>>

SpecOMDb == OMDbStageInit /\ [][OMDbStageNext]_vars

\* the DDD stage alone, over a complete OMDb output
DDDStageInit ==
    /\ InitDDD
    /\ InitTMDb /\ TMDbParked
    /\ InitOMDb /\ OMDbParked
    /\ InitCkpt /\ CkptParked
    /\ InitItem

DDDStageNext ==
    \/ \E force \in BOOLEAN, limit \in Limits : DDDStart(force, limit) /\ UNCHANGED <<tvars, ovars, cvars, ivars>>
    \/ \E answer \in DDDAnswers : DDDItem(answer) /\ UNCHANGED <<tvars, ovars, cvars, ivars>>
    \/ DDDFinish /\ UNCHANGED <<tvars, ovars, cvars, ivars>>
    \/ DDDInterrupt /\ UNCHANGED <<tvars, ovars, cvars, ivars>>

SpecDDD == DDDStageInit /\ [][DDDStageNext]_vars

\* the three stages, one of them run in a behaviour
StagesInit == TMDbStageInit \/ OMDbStageInit \/ DDDStageInit

StagesNext ==
    \/ \E force \in BOOLEAN, limit \in Limits :
          OMDbParked /\ DDDParked /\ TMDbStart(force, limit) /\ UNCHANGED <<ovars, dvars, cvars, ivars>>
    \/ \E answer \in {"found", "absent", "error"} : TMDbItem(answer) /\ UNCHANGED <<ovars, dvars, cvars, ivars>>
    \/ TMDbFinalSave /\ UNCHANGED <<ovars, dvars, cvars, ivars>>
    \/ TMDbInterrupt /\ UNCHANGED <<ovars, dvars, cvars, ivars>>
    \/ \E force \in BOOLEAN, limit \in Limits :
          TMDbParked /\ DDDParked /\ OMDbStart(force, limit) /\ UNCHANGED <<tvars, dvars, cvars, ivars>>
    \/ \E answer \in {"found", "absent", "error"} : OMDbItem(answer) /\ UNCHANGED <<tvars, dvars, cvars, ivars>>
    \/ OMDbFinish /\ UNCHANGED <<tvars, dvars, cvars, ivars>>
    \/ OMDbInterrupt /\ UNCHANGED <<tvars, dvars, cvars, ivars>>
    \/ TMDbParked /\ DDDParked /\ NewDay /\ UNCHANGED <<tvars, dvars, cvars, ivars>>
    \/ \E force \in BOOLEAN, limit \in Limits :
          TMDbParked /\ OMDbParked /\ DDDStart(force, limit) /\ UNCHANGED <<tvars, ovars, cvars, ivars>>
    \/ \E answer \in DDDAnswers : DDDItem(answer) /\ UNCHANGED <<tvars, ovars, cvars, ivars>>
    \/ DDDFinish /\ UNCHANGED <<tvars, ovars, cvars, ivars>>
    \/ DDDInterrupt /\ UNCHANGED <<tvars, ovars, cvars, ivars>>

SpecStages == StagesInit /\ [][StagesNext]_vars

\* the three stages, one of them run in a behaviour, with kills that arrive
\* inside a write of the output file
KillInit == TMDbStageInit \/ OMDbStageInit \/ DDDStageInit

KillNext ==
    \/ \E force \in BOOLEAN, limit \in Limits :
          OMDbParked /\ DDDParked /\ TMDbStart(force, limit) /\ UNCHANGED <<ovars, dvars, cvars, ivars>>
    \/ \E answer \in {"found", "absent", "error"} : TMDbItem(answer) /\ UNCHANGED <<ovars, dvars, cvars, ivars>>
    \/ TMDbFinalSave /\ UNCHANGED <<ovars, dvars, cvars, ivars>>
    \/ TMDbInterrupt /\ UNCHANGED <<ovars, dvars, cvars, ivars>>
    \/ \E k \in 0..NumIds : TMDbKillInWrite(k) /\ UNCHANGED <<ovars, dvars, cvars, ivars>>
    \/ \E force \in BOOLEAN, limit \in Limits :
          TMDbParked /\ DDDParked /\ OMDbStart(force, limit) /\ UNCHANGED <<tvars, dvars, cvars, ivars>>
    \/ \E answer \in {"found", "absent", "error"} : OMDbItem(answer) /\ UNCHANGED <<tvars, dvars, cvars, ivars>>
    \/ OMDbFinish /\ UNCHANGED <<tvars, dvars, cvars, ivars>>
    \/ OMDbInterrupt /\ UNCHANGED <<tvars, dvars, cvars, ivars>>
    \/ \E k \in 0..(2 * NumSrc) : OMDbKillInWrite(k) /\ UNCHANGED <<tvars, dvars, cvars, ivars>>
    \/ TMDbParked /\ DDDParked /\ NewDay /\ UNCHANGED <<tvars, dvars, cvars, ivars>>
    \/ \E force \in BOOLEAN, limit \in Limits :
          TMDbParked /\ OMDbParked /\ DDDStart(force, limit) /\ UNCHANGED <<tvars, ovars, cvars, ivars>>
    \/ \E answer \in DDDAnswers : DDDItem(answer) /\ UNCHANGED <<tvars, ovars, cvars, ivars>>
    \/ DDDFinish /\ UNCHANGED <<tvars, ovars, cvars, ivars>>
    \/ DDDInterrupt /\ UNCHANGED <<tvars, ovars, cvars, ivars>>
    \/ \E k \in 0..NumSrc : DDDKillInWrite(k) /\ UNCHANGED <<tvars, ovars, cvars, ivars>>

SpecKill == KillInit /\ [][KillNext]_vars

\* _save_checkpoint called again and again on one growing buffer
CkptInit ==
    /\ InitCkpt
    /\ InitItem
    /\ InitTMDb /\ TMDbParked
    /\ InitOMDb /\ OMDbParked
    /\ InitDDD /\ DDDParked

CkptNext ==
    \/ \E id \in 1..MaxCkIds, answer \in {"found", "absent"} :
          CkptFetch(id, answer) /\ UNCHANGED <<tvars, ovars, dvars, ivars>>
    \/ CkptSave /\ UNCHANGED <<tvars, ovars, dvars, ivars>>

SpecCkpt == CkptInit /\ [][CkptNext]_vars

\* the DDD stage and, once its runs are over, one _process_item call of the
\* stage followed request by request
DDDItemNext ==
    \/ \E force \in BOOLEAN, limit \in Limits :
          i_items = 0 /\ DDDStart(force, limit) /\ UNCHANGED <<tvars, ovars, cvars, ivars>>
    \/ \E answer \in DDDAnswers : DDDItem(answer) /\ UNCHANGED <<tvars, ovars, cvars, ivars>>
    \/ DDDFinish /\ UNCHANGED <<tvars, ovars, cvars, ivars>>
    \/ DDDInterrupt /\ UNCHANGED <<tvars, ovars, cvars, ivars>>
    \/ \E row \in ItemRows("ddd") :
          d_pc = "idle" /\ i_items = 0 /\ ItemCall("ddd", row)
             /\ UNCHANGED <<tvars, ovars, dvars, cvars>>
    \/ \E r \in HttpResponses, trigger \in Triggers :
          DDDResponse(r, trigger) /\ UNCHANGED <<tvars, ovars, dvars, cvars>>

SpecDDDItem == DDDStageInit /\ [][DDDItemNext]_vars

\* _process_item of the three stages, with the adapter calls it makes
ItemInit ==
    /\ InitItem
    /\ InitTMDb /\ TMDbParked
    /\ InitOMDb /\ OMDbParked
    /\ InitDDD /\ DDDParked
    /\ InitCkpt /\ CkptParked

ItemNext ==
    \/ \E stage \in {"tmdb", "omdb", "ddd"} : \E row \in ItemRows(stage) :
          ItemCall(stage, row) /\ UNCHANGED <<tvars, ovars, dvars, cvars>>
    \/ \E r \in HttpResponses, media_type \in {"movie", "tv"} :
          TMDbResponse(r, media_type) /\ UNCHANGED <<tvars, ovars, dvars, cvars>>
    \/ \E r \in HttpResponses : OMDbResponse(r) /\ UNCHANGED <<tvars, ovars, dvars, cvars>>
    \/ \E r \in HttpResponses, trigger \in Triggers :
          DDDResponse(r, trigger) /\ UNCHANGED <<tvars, ovars, dvars, cvars>>

SpecItem == ItemInit /\ [][ItemNext]_vars

\* ------------------------------------------------------------ TMDb claims
\* the file holds the row as it was fetched
Persisted(row, file) ==
    \E j \in 1..Len(FileRows(file)) : FileRows(file)[j] = Reindex(row, file[1].columns)

\* the watchlist IDs that are not in the set S, in watchlist order
WatchlistWithout(S) == SelectSeq(ConstSeq(WatchlistDF.rows), LAMBDA c : c \notin S)

\* a run without --force that resumed from an output file left by a killed run has returned
TMDbResumedRunDone ==
    /\ t_pc = "idle"
    /\ t_exit = "ok"
    /\ ~t_force
    /\ t_prev \in {"interrupt", "interrupt after checkpoint"}
    /\ Len(t_dest.rows) > 0

\* C1 as stated: the run after a kill that left the IDs S in the output file
\* calls the adapter for exactly the watchlist IDs not in S, each once, and
\* leaves exactly one row per watchlist ID in the output file.
C1_ResumeCompletesWatchlist ==
    TMDbResumedRunDone =>
        /\ t_calls = WatchlistWithout(Consts(t_dest.rows))
        /\ OneRowPerId(FileRows(tmdb_file), WatchlistIds)

\* C1 amended: a resumed run without --force whose work-list --limit did not cut short calls the
\* adapter for exactly the watchlist IDs not in S, each once, and leaves exactly
\* one row for every watchlist ID except those whose processing raised.
C1_ResumeCompletesUnraised ==
    (TMDbResumedRunDone /\ ~TMDbTruncated) =>
        /\ t_calls = WatchlistWithout(Consts(t_dest.rows))
        /\ OneRowPerId(FileRows(tmdb_file), WatchlistIds \ t_raised)

C1_Witness ==
    /\ TMDbResumedRunDone
    /\ ~TMDbTruncated
    /\ t_prev = "interrupt after checkpoint"
    /\ Len(t_calls) >= 1
    /\ t_wrote

\* C2: when the item loop has ended, the final save has written every row
\* processed in this invocation and the run has exited normally, also when
\* the destination started empty.
C2_FinalSaveWritesAll ==
    (t_pc = "idle" /\ t_exit \in {"ok", "crash"} /\ Len(t_calls) > 0) =>
        /\ t_exit = "ok"
        /\ \A i \in 1..Len(t_enriched) :
              \E j \in 1..Len(FileRows(tmdb_file)) :
                 FileRows(tmdb_file)[j] = Reindex(t_enriched[i], tmdb_file[1].columns)

\* C3 as stated: after a run that returned normally with no item raising, the
\* next run without --force has an empty work-list, calls nothing and leaves
\* the output file alone.
C3_SecondRunIdle ==
    [][(t_pc = "idle" /\ t_exit = "ok" /\ t_raised = {} /\ ~t_force')
        => (t_pc' = "idle" /\ t_items' = <<>> /\ t_calls' = <<>>
            /\ tmdb_file' = tmdb_file)]_vars

\* C3 amended: the same, for a first run whose work-list --limit did not cut short.
C3_SecondRunIdleUnlimited ==
    [][(t_pc = "idle" /\ t_exit = "ok" /\ t_raised = {} /\ ~TMDbTruncated /\ ~t_force')
        => (t_pc' = "idle" /\ t_items' = <<>> /\ t_calls' = <<>>
            /\ tmdb_file' = tmdb_file)]_vars

\* a second run has just returned at once after a first run that did work
C3_Witness ==
    /\ t_pc = "idle"
    /\ t_exit = "ok"
    /\ t_prev = "ok"
    /\ ~t_force
    /\ t_items = <<>>
    /\ tmdb_file # NoFile
    /\ Len(tmdb_file[1].rows) = NumIds
    /\ \E i \in 1..NumIds : tmdb_file[1].rows[i]["tmdb_id"] = Null

\* the row of the buffer fetched last for the ID c
LastFetched(buf, c) ==
    buf[CHOOSE k \in 1..Len(buf) :
            /\ buf[k]["const"] = c
            /\ \A m \in (k+1)..Len(buf) : buf[m]["const"] # c]

\* C13: a table written by _save_checkpoint has at most one row per const,
\* holds the IDs of the destination and of the buffer, and the row of every
\* ID of the buffer is the one fetched last for it.
C13_CheckpointKeepsLatest ==
    ck_file # NoFile =>
        LET rows == ck_file[1].rows
        IN  /\ OneRowPerId(rows, Consts(ck_dest.rows) \cup Consts(ck_saved))
            /\ \A c \in Consts(ck_saved) : Persisted(LastFetched(ck_saved, c), ck_file)

\* the buffer has been checkpointed twice while it grew, an ID of it is in
\* the destination too, and an ID was fetched twice
C13_Witness ==
    /\ ck_file # NoFile
    /\ ck_saves >= 2
    /\ Consts(ck_dest.rows) \cap Consts(ck_saved) # {}
    /\ \E i, j \in 1..Len(ck_saved) : i < j /\ ck_saved[i]["const"] = ck_saved[j]["const"]

\* rows processed in this invocation that the output file does not hold
TMDbUnsaved ==
    Cardinality({i \in 1..Len(t_enriched) : ~Persisted(t_enriched[i], tmdb_file)})

C21_AtomicWrite ==
    [][/\ tmdb_file' # tmdb_file => (t_pc = "loop" /\ tmdb_file' = TMDbWriteDue.file)
       /\ omdb_file' # omdb_file
             => (o_pc = "loop" /\ omdb_file' = OMDbSaveResults(o_dest, o_enriched, omdb_file))
       /\ ddd_file' # ddd_file => (d_pc = "loop" /\ ddd_file' = <<DDDWriteDue>>)]_vars

\* C23: a call of _make_request that is answered 429 retries once at most
\* (it never calls itself from a call that is itself a retry), and it ends
\* by returning, a record or absent, however often TMDb answers 429.
C23_SingleRetry ==
    i_stage = "tmdb" => (i_depth <= 2 /\ i_pc # "raised")

\* C25: no adapter lookup raises; a lookup whose last response was a miss
\* (no match, a match without id, an HTTP error status, no response) comes
\* to absent for _process_item.
C25_AbsentNotRaised ==
    /\ i_pc # "raised"
    /\ (i_pc = "returned" /\ i_log[Len(i_log)] \notin {"ok", "ok partial"})
          => i_answer \in {"absent", "no id", "no details"}

\* the columns a stage adds
ProviderColumns(stage) ==
    IF stage = "tmdb" THEN {"tmdb_id", "tmdb_title"} ELSE {"omdb_title"}

\* C24: the row _process_item returns in the TMDb and OMDb stages holds
\* every column of the input row with its value, the columns it adds are
\* columns of the provider, and when the last adapter call of the item came
\* back without a record the row returned is the input row.
C24_MergeAdditive ==
    (i_pc = "returned" /\ i_stage \in {"tmdb", "omdb"}) =>
        /\ \A c \in DOMAIN i_row : c \in DOMAIN i_result /\ i_result[c] = i_row[c]
        /\ (DOMAIN i_result \ DOMAIN i_row) \subseteq ProviderColumns(i_stage)
        /\ i_log[Len(i_log)] # "ok" => i_result = i_row

\* the IDs the next TMDb run without --force would find pending
TMDbPendingNext(file) == Consts(TMDbItemsToProcess(WatchlistDF, TMDbLoadDest(file, FALSE)))

\* C30: when a TMDb run has ended, an ID whose processing raised in it (it
\* was pending, the run being one without --force) is pending for the next
\* run without --force; and a run that went through its whole pending set
\* has left in the output file every watchlist ID whose processing did not
\* raise, so that the IDs get there run by run.
C30_FailedItemsRetried ==
    (t_pc = "idle" /\ t_exit \in {"ok", "crash"} /\ Len(t_calls) > 0) =>
        /\ ~t_force => \A id \in t_raised : id \in TMDbPendingNext(tmdb_file)
        /\ ~TMDbTruncated => (WatchlistIds \ t_raised) \subseteq Consts(FileRows(tmdb_file))

\* ------------------------------------------------------------ OMDb claims
\* C4: the persisted OMDb output has exactly one row per const and as many
\* rows as the source table.
C4_OneRowPerConst ==
    omdb_file # NoFile =>
        /\ OneRowPerId(omdb_file[1].rows, SourceIds)
        /\ Len(omdb_file[1].rows) = Len(OMDbSourceDF.rows)

\* the IDs of a run's buffer for which the adapter answered absent
AbsentIds(enriched, marker) ==
    {enriched[i]["const"] : i \in {k \in 1..Len(enriched) : marker \notin DOMAIN enriched[k]}}

\* every row of the table for the ID has no value in the provider's columns
NoProviderValues(rows, id, cols) ==
    \A i \in 1..Len(rows) :
        rows[i]["const"] = id => \A c \in cols \cap DOMAIN rows[i] : rows[i][c] = Null

C6_TMDb ==
    (t_pc = "idle" /\ t_exit \in {"ok", "crash"}) =>
        \A id \in AbsentIds(t_enriched, "tmdb_id") :
            /\ id \in Consts(FileRows(tmdb_file))
            /\ NoProviderValues(FileRows(tmdb_file), id, {"tmdb_id", "tmdb_title"})
            /\ id \notin Consts(TMDbItemsToProcess(WatchlistDF, TMDbLoadDest(tmdb_file, FALSE)))

C6_OMDb ==
    (o_pc = "idle" /\ o_exit = "ok") =>
        \A id \in AbsentIds(o_enriched, "omdb_title") :
            /\ id \in Consts(FileRows(omdb_file))
            /\ NoProviderValues(FileRows(omdb_file), id, {"omdb_title"})
            /\ id \notin Consts(OMDbItemsToProcess(OMDbSourceDF, OMDbLoadDest(omdb_file, FALSE)))

\* C6: after a run in which the adapter answered not found for an ID, the
\* saved row of the ID has no provider values and the ID is not in the pending
\* set the next run without --force computes (TMDb and OMDb stages).
C6_AbsentCountsAsProcessed == C6_TMDb /\ C6_OMDb

\* C7: the adapter calls issued on one calendar date never exceed DAILY_LIMIT.
C7_DailyCap == o_issued <= DAILY_LIMIT

\* C8: a run entering the loop with calls_today = DAILY_LIMIT - 1 and two or
\* more pending items makes one adapter call and halts reporting the limit;
\* one entering with calls_today = DAILY_LIMIT makes none.
C8_QuotaBoundary ==
    /\ (o_pc = "loop" /\ o_start = DAILY_LIMIT - 1 /\ Len(o_items) >= 2)
          => Len(o_calls) <= 1
    /\ (o_pc = "idle" /\ o_exit = "ok" /\ o_start = DAILY_LIMIT - 1 /\ Len(o_items) >= 2)
          => (Len(o_calls) = 1 /\ o_reported)
    /\ (o_exit \in {"running", "ok"} /\ o_start = DAILY_LIMIT)
          => (Len(o_calls) = 0 /\ Len(o_enriched) = 0)

\* C9: before the first adapter call of a run, calls_today is 0 and
\* last_run_date is the current date when the stored date differs from the
\* current date, and the stored counter when the dates are equal.
C9_DateRollover ==
    (o_pc = "loop" /\ Len(o_calls) = 0 /\ status_file # NoFile) =>
        /\ o_status.last_run_date = today
        /\ status_file[1].last_run_date # today => o_status.calls_today = 0
        /\ status_file[1].last_run_date = today
              => o_status.calls_today = status_file[1].calls_today

\* a run has loaded a quota file of another date that held a positive counter
C9_Witness ==
    /\ o_pc = "loop"
    /\ Len(o_calls) = 0
    /\ status_file # NoFile
    /\ status_file[1].last_run_date # today
    /\ status_file[1].calls_today > 0
    /\ o_status.calls_today = 0

\* C10: whenever no process runs, the quota file records every call counted
\* on the current date.
C10_QuotaPersisted ==
    o_pc = "idle" => PersistedCalls(status_file, today) >= o_counted

\* the IDs the next OMDb run without --force would find pending
OMDbPendingNext(file) == Consts(OMDbItemsToProcess(OMDbSourceDF, OMDbLoadDest(file, FALSE)))

\* C11: when an OMDb run is interrupted after two or more items were
\* processed, not all of their rows are held in memory only (whatever the
\* checkpoint interval below that number, at least one is in the output
\* file), and no row of the run that is in the file is pending for the next
\* run without --force.
C11_InterruptKeepsProgress ==
    [][(o_pc = "loop" /\ o_exit' = "interrupt" /\ Len(o_enriched) >= 2)
        => /\ \E i \in 1..Len(o_enriched) : Persisted(o_enriched[i], omdb_file')
           /\ \A i \in 1..Len(o_enriched) :
                 Persisted(o_enriched[i], omdb_file')
                    => o_enriched[i]["const"] \notin OMDbPendingNext(omdb_file')]_vars

\* the run broke out of the loop at the daily limit and has returned
OMDbHaltedAtLimit == o_pc = "idle" /\ o_exit = "ok" /\ o_reported

\* C12: once calls_today >= DAILY_LIMIT in a run no further adapter call is
\* made in it; when the run has returned after the halt, its exit code is 0,
\* the rows it completed are in the output file, the quota file holds its
\* counter, and the pending items it did not reach are still pending for the
\* next run.
C12_ExhaustedRunSaves ==
    /\ [](OMDbHaltedAtLimit =>
            /\ ExitCode(o_exit) = 0
            /\ o_status.calls_today >= DAILY_LIMIT
            /\ \A i \in 1..Len(o_enriched) : Persisted(o_enriched[i], omdb_file)
            /\ status_file = <<o_status>>)
    /\ [][(o_pc = "loop" /\ o_status.calls_today >= DAILY_LIMIT)
            => /\ Len(o_calls') <= Len(o_calls)
               /\ \A k \in o_idx..Len(o_items) :
                     o_items[k]["const"] \in OMDbPendingNext(omdb_file)
                        => o_items[k]["const"] \in OMDbPendingNext(omdb_file')]_vars

\* a run that had completed a row halted at the limit with items left
C12_Witness ==
    /\ OMDbHaltedAtLimit
    /\ Len(o_enriched) >= 1
    /\ o_idx <= Len(o_items)
    /\ omdb_file # NoFile

\* C26: while the calendar date stays the same, calls_today of the date in
\* the quota file never decreases; and inside a run the counter in memory
\* changes only by going up by one, with the row of the item appended.
C26_QuotaMonotone ==
    [][/\ today' = today
            => PersistedCalls(status_file', today) >= PersistedCalls(status_file, today)
       /\ (o_pc = "loop" /\ o_exit' # "interrupt")
            => /\ o_status'.calls_today \in {o_status.calls_today, o_status.calls_today + 1}
               /\ o_status'.calls_today = o_status.calls_today + 1
                     <=> Len(o_enriched') = Len(o_enriched) + 1]_vars

\* a second run of the date has saved a counter above the one the first run
\* of the date had saved
C26_Witness ==
    /\ o_pc = "idle" /\ o_exit = "ok" /\ o_runs = 2
    /\ o_start >= 1 /\ o_start < DAILY_LIMIT - 1
    /\ status_file # NoFile
    /\ status_file[1].last_run_date = today
    /\ status_file[1].calls_today > o_start

\* C28: in a run, calls_today is its value at the start of the run plus the
\* number of adapter calls the run has issued, whatever they returned and
\* also when building the row raised afterwards.
C28_QuotaExact ==
    o_exit \in {"running", "ok"} => o_status.calls_today = o_start + Len(o_calls)

\* ------------------------------------------------- claims on all the stages
\* the IDs of the rows of dest_df with the index labels items
RowConsts(df, items) == [k \in 1..Len(items) |-> df.rows[items[k]]["const"]]

C14_TMDb ==
    (t_pc = "idle" /\ t_exit \in {"ok", "crash"} /\ t_raised # {}) =>
        /\ t_calls = ConstSeq(t_items)
        /\ t_exit = "ok"
        /\ \A i \in 1..Len(t_enriched) : Persisted(t_enriched[i], tmdb_file)

C14_OMDb ==
    (o_pc = "idle" /\ o_exit = "ok" /\ o_raised # {} /\ ~o_reported) =>
        /\ o_calls = ConstSeq(o_items)
        /\ \A i \in 1..Len(o_enriched) : Persisted(o_enriched[i], omdb_file)
        /\ status_file = <<o_status>>

C14_DDD ==
    (d_pc = "idle" /\ d_exit = "ok" /\ d_raised # {}) =>
        /\ d_calls = RowConsts(d_dest, d_items)
        /\ Len(d_rows) > 0 => ddd_file = <<d_dest>>

\* C14: in each stage, when the processing of an item raised, the run still
\* attempts every item of its work-list, performs the final save of the rows
\* it completed and returns normally.
C14_ItemErrorIsolated == C14_TMDb /\ C14_OMDb /\ C14_DDD

\* every ID of the table old is in the table new, and the row of every ID
\* that is not in the set processed has in new the values it has in old
KeepsRows(old, new, processed) ==
    /\ Consts(old.rows) \subseteq Consts(new.rows)
    /\ \A i \in 1..Len(old.rows) :
          old.rows[i]["const"] \notin processed
             => \E j \in 1..Len(new.rows) :
                   \A c \in Range(old.columns) :
                      HasColumn(new, c) /\ new.rows[j][c] = old.rows[i][c]

C29_TMDb ==
    (~t_force /\ tmdb_file # NoFile /\ tmdb_file' # tmdb_file)
    => KeepsRows(tmdb_file[1], tmdb_file'[1], Consts(t_enriched) \cup Consts(t_enriched'))

C29_OMDb ==
    (~o_force /\ omdb_file # NoFile /\ omdb_file' # omdb_file)
    => KeepsRows(omdb_file[1], omdb_file'[1], Consts(o_enriched))

C29_DDD ==
    (~d_force /\ ddd_file # NoFile /\ ddd_file' # ddd_file)
    => KeepsRows(ddd_file[1], ddd_file'[1], Range(RowConsts(d_dest, d_indices')))

\* C29: when a run without --force changes the output file of its stage,
\* every ID the file held is still in it, and the rows of the IDs the run
\* has not processed have their values as before.
C29_NoIdLost == [][C29_TMDb /\ C29_OMDb /\ C29_DDD]_vars

\* the credential or the upstream input file of the stage is missing
Missing(env) == ~env.api_key \/ ~env.input_file

C16_LimitTakesFirstK ==
    /\ [][(d_pc = "idle" /\ d_limit' # <<>> /\ ~Missing(d_env))
            => d_items' = HeadRows(DDDItemsToProcess(DDDLoadDest(ddd_file, d_force')),
                                   d_limit'[1])]_vars
    /\ []((d_pc = "idle" /\ d_exit = "ok" /\ d_limit # <<>>)
            => d_calls = RowConsts(d_dest, d_items))

\* every source ID of the stage has a row with the marker of the stage
FullTMDbFile(file) == Consts(FileRows(file)) = WatchlistIds

FullOMDbFile(file) ==
    \A id \in SourceIds : \E i \in 1..Len(FileRows(file)) :
        /\ FileRows(file)[i]["const"] = id
        /\ HasColumn(file[1], "omdb_title")
        /\ FileRows(file)[i]["omdb_title"] # Null

FullDDDFile(file) ==
    /\ file # NoFile
    /\ HasColumn(file[1], "ddd_id")
    /\ \A i \in 1..Len(file[1].rows) : file[1].rows[i]["ddd_id"] # Null

\* the limit cut the work-list of the run short
OMDbTruncated == Len(o_items) < Len(OMDbItemsToProcess(OMDbSourceDF, o_dest))

\* a forced run on a fully enriched destination has every source row in its
\* work-list, unless --limit cut it
C17_TMDbStart ==
    (t_pc = "idle" /\ t_force' /\ FullTMDbFile(tmdb_file) /\ ~Missing(t_env)
        /\ tvars' # tvars /\ ~TMDbTruncated')
    => t_items' = WatchlistDF.rows

C17_OMDbStart ==
    (o_pc = "idle" /\ o_force' /\ FullOMDbFile(omdb_file) /\ ~Missing(o_env)
        /\ o_runs' # o_runs /\ ~OMDbTruncated')
    => o_items' = OMDbSourceDF.rows

C17_DDDStart ==
    (d_pc = "idle" /\ d_force' /\ FullDDDFile(ddd_file) /\ ~Missing(d_env)
        /\ dvars' # dvars /\ d_limit' \in {<<>>, <<0>>})
    => RowConsts(d_dest', d_items') = ConstSeq(DDDSourceDF.rows)

\* C17: a run with --force whose work-list no --limit cuts short, started on
\* a fully enriched destination, has every source row in its work-list; and
\* a run that has returned (the OMDb one without halting at the daily limit)
\* has attempted the rows of its work-list, each once, in order.
C17_ForceReprocessesAll ==
    /\ [][C17_TMDbStart /\ C17_OMDbStart /\ C17_DDDStart]_vars
    /\ []((t_pc = "idle" /\ t_exit \in {"ok", "crash"}) => t_calls = ConstSeq(t_items))
    /\ []((o_pc = "idle" /\ o_exit = "ok" /\ ~o_reported) => o_calls = ConstSeq(o_items))
    /\ []((d_pc = "idle" /\ d_exit = "ok") => d_calls = RowConsts(d_dest, d_items))

\* a second OMDb run, with --force, has fetched every source ID again after
\* a first run had found and saved them all
C17_Witness ==
    /\ o_pc = "idle" /\ o_exit = "ok" /\ o_force /\ o_runs = 2
    /\ o_calls = ConstSeq(OMDbSourceDF.rows)
    /\ Len(o_enriched) = NumSrc
    /\ \A i \in 1..NumSrc : "omdb_title" \in DOMAIN o_enriched[i]
    /\ status_file # NoFile
    /\ Len(status_file[1].enriched_ids) = 2 * NumSrc

C22_TMDbStart ==
    (t_pc = "idle" /\ tvars' # tvars /\ ~Missing(t_env) /\ t_items' = <<>>)
    => /\ t_pc' = "idle" /\ ExitCode(t_exit') = 0 /\ t_exit' = "ok"
       /\ t_calls' = <<>> /\ tmdb_file' = tmdb_file

C22_OMDbStart ==
    (o_pc = "idle" /\ o_runs' # o_runs /\ ~Missing(o_env) /\ o_items' = <<>>)
    => /\ o_pc' = "idle" /\ ExitCode(o_exit') = 0 /\ o_exit' = "ok"
       /\ o_calls' = <<>> /\ omdb_file' = omdb_file /\ status_file' = status_file

C22_DDDStart ==
    (d_pc = "idle" /\ dvars' # dvars /\ ~Missing(d_env) /\ d_items' = <<>>)
    => /\ d_pc' = "idle" /\ ExitCode(d_exit') = 0 /\ d_exit' = "ok"
       /\ d_calls' = <<>> /\ ddd_file' = ddd_file

\* C22: a run of a stage whose computed work-list is empty returns at once
\* with exit code 0, calls the adapter for nothing and leaves the output file
\* of the stage and the OMDb quota file as they were.
C22_EmptyWorkListNoOp ==
    [][C22_TMDbStart /\ C22_OMDbStart /\ C22_DDDStart]_vars

\* a second OMDb run, on the day after a first one that found every source
\* ID, has returned at once: the quota file still holds the date and the
\* counter of the first run
C22_Witness ==
    /\ o_pc = "idle" /\ o_exit = "ok" /\ o_runs = 2 /\ ~o_force
    /\ o_items = <<>> /\ o_calls = <<>>
    /\ FullOMDbFile(omdb_file)
    /\ status_file # NoFile
    /\ status_file[1].last_run_date # today
    /\ status_file[1].calls_today = NumSrc
    /\ o_status.calls_today = 0

\* the ID has a row with an OMDb record in the table
HasOMDbRecord(df, id) ==
    /\ HasColumn(df, "omdb_title")
    /\ \E i \in 1..Len(df.rows) : df.rows[i]["const"] = id /\ df.rows[i]["omdb_title"] # Null

\* C19: a run without --force never fetches an ID whose OMDb record the
\* output file holds; and when a run has gone through all the pending IDs
\* (no --limit cut, no halt at the daily limit, no item raised) none remains
\* pending, so that a further run processes zero items.
C19_NoRefetchThenIdle ==
    /\ ~o_force => \A k \in 1..Len(o_calls) : ~HasOMDbRecord(o_dest, o_calls[k])
    /\ (o_pc = "idle" /\ o_exit = "ok" /\ ~o_reported /\ o_raised = {} /\ ~OMDbTruncated)
          => OMDbPendingNext(omdb_file) = {}

\* ------------------------------------------------------------- DDD claims
\* the source IDs absent from the table or present with a null marker
DDDPendingIds(df) ==
    {id \in Consts(DDDSourceDF.rows) :
        \A i \in 1..Len(df.rows) :
            df.rows[i]["const"] = id
               => (~HasColumn(df, "ddd_id") \/ df.rows[i]["ddd_id"] = Null)}

\* C18: the work-list of a DDD run without --force and without --limit is
\* the source IDs that are absent from the destination table or present
\* there with a null ddd_id.
C18_PendingOverSource ==
    [][(d_pc = "idle" /\ ~d_force' /\ d_limit' = <<>> /\ ~Missing(d_env) /\ dvars' # dvars)
        => Range(RowConsts(d_dest', d_items')) = DDDPendingIds(DDDLoadDest(ddd_file, FALSE))]_vars

\* the row i of the table counts as pending: it has no ddd_id column or a
\* null ddd_id ("NOT_FOUND" is a value, so the row is done)
DDDRowPending(df, i) == ~HasColumn(df, "ddd_id") \/ df.rows[i]["ddd_id"] = Null

\* C27: the work-list of a DDD run that --limit does not cut holds exactly
\* the rows of the destination without a ddd_id column or with a null
\* ddd_id, so none with ddd_id = "NOT_FOUND"; and _process_item gives
\* ddd_id = "NOT_FOUND" exactly when the adapter answered absent or with an
\* object lacking 'item' or 'topicItemStats'.
C27_NotFoundSentinel ==
    /\ [][(d_pc = "idle" /\ dvars' # dvars /\ ~Missing(d_env) /\ d_limit' = <<>>)
            => \A i \in 1..Len(d_dest'.rows) :
                  i \in Range(d_items') <=> DDDRowPending(d_dest', i)]_vars
    /\ [][Len(d_rows') = Len(d_rows) + 1
            => (d_rows'[Len(d_rows')]["ddd_id"] = "NOT_FOUND"
                   <=> d_calls'[Len(d_calls')] \in ddd_missing)]_vars
    /\ []((i_stage = "ddd" /\ i_pc = "returned")
            => (i_result["ddd_id"] = "NOT_FOUND" <=> i_answer \in {"absent", "partial"}))

\* a run resumed from a table with a null and a "NOT_FOUND" row had only the
\* null row in its work-list, and _process_item has returned "NOT_FOUND" for
\* a media object without 'item'
C27_Witness ==
    /\ d_pc = "idle" /\ d_exit = "ok" /\ ~d_fresh /\ d_limit = <<>>
    /\ HasColumn(d_dest, "ddd_id")
    /\ \E i \in 1..Len(d_dest.rows) : d_dest.rows[i]["ddd_id"] = "NOT_FOUND"
    /\ d_items = <<1>>
    /\ i_stage = "ddd" /\ i_pc = "returned"
    /\ i_answer = "partial"
    /\ i_result = [ddd_id |-> "NOT_FOUND"]

\* the count the trigger _process_item read holds under key, 0 for none
C32_Count(key) == IF key \in DOMAIN i_trigger THEN i_trigger[key] ELSE 0

\* C32: when _process_item returns the row of a found record, the label of
\* the topic is one of the four labels, and it is "Yes" iff yesSum > noSum,
\* "No" iff noSum > yesSum, "Controversial" iff yesSum = noSum > 0 and
\* "No Votes" iff both are 0, a missing count counting as 0.
C32_VoteLabel ==
    (i_stage = "ddd" /\ i_pc = "returned" /\ i_answer = "found")
        => LET yesSum == C32_Count("yesSum")
               noSum == C32_Count("noSum")
               label == i_result["ddd_topic"]
           IN  /\ label \in {"Yes", "No", "Controversial", "No Votes"}
               /\ label = "Yes" <=> yesSum > noSum
               /\ label = "No" <=> noSum > yesSum
               /\ label = "Controversial" <=> (yesSum = noSum /\ yesSum > 0)
               /\ label = "No Votes" <=> (yesSum = 0 /\ noSum = 0)

\* _process_item has labelled a topic with as many yes votes as no votes,
\* and more than none
C32_Witness ==
    /\ i_stage = "ddd" /\ i_pc = "returned" /\ i_answer = "found"
    /\ DOMAIN i_trigger = {"yesSum", "noSum"}
    /\ i_trigger["yesSum"] = i_trigger["noSum"] /\ i_trigger["yesSum"] > 0
    /\ i_result["ddd_topic"] = "Controversial"

\* the columns the DDD stage adds
DDDColumns == {"ddd_id", "ddd_topic"}

\* the table new has the rows of the table old, as many and in their order,
\* and differs from it only in DDD cells of the rows with the labels indices
DDDFrame(old, new, indices) ==
    /\ new.columns = old.columns
    /\ Len(new.rows) = Len(old.rows)
    /\ \A i \in 1..Len(old.rows) : \A c \in Range(old.columns) :
          new.rows[i][c] # old.rows[i][c] => (c \in DDDColumns /\ i \in Range(indices))

\* C31: whenever a DDD run changes its destination table or the output
\* file, the new table or file has the rows of the destination as it was,
\* as many and in the same order, and differs from it only in ddd_ cells of
\* rows processed in this run.
C31_DDDFrame ==
    [][/\ (d_pc = "loop" /\ d_exit' # "interrupt" /\ d_dest' # d_dest)
             => DDDFrame(d_dest, d_dest', d_indices')
       /\ (d_pc = "loop" /\ ddd_file' # ddd_file)
             => DDDFrame(d_dest, ddd_file'[1], d_indices)]_vars

\* C5: after a DDD run that started from a copy of the source and returned
\* normally, every row it processed has a non-null ddd_id in the output file
\* and is not pending for the next run without --force.
C5_ProcessedRowsMarked ==
    (d_pc = "idle" /\ d_exit = "ok" /\ d_fresh) =>
        \A k \in Range(d_indices) :
            /\ ddd_file # NoFile
            /\ HasColumn(ddd_file[1], "ddd_id")
            /\ ddd_file[1].rows[k]["ddd_id"] # Null
            /\ k \notin Range(DDDItemsToProcess(DDDLoadDest(ddd_file, FALSE)))

====
